---- MODULE Spec2Model ----
(***************************************************************************)
(* A model of guess_glottocode/utils.py: the geographic candidate filter   *)
(* (geo_filter_glottocodes with find_children / find_parents), the         *)
(* ancestry walk (find_ancestors) and the verification of a guess          *)
(* (verify_glottocode_guess with parse_ini, extract_altnames, check_name). *)
(*                                                                         *)
(* Abstractions.  Coordinates are integers in tenths of a degree.  The     *)
(* query geometry is a collection of points (the polygons a caller may     *)
(* pass are not modelled).  The UTM projection chosen by estimate_utm_crs  *)
(* is a fixed scaling to kilometres, and the buffer of a point is the open *)
(* disc of the given radius.  A pandas NaN is the value NaN below, which   *)
(* is the only value of a string column that is not a string.              *)
(***************************************************************************)
EXTENDS Integers, Sequences, FiniteSets, TLC

VARIABLES
    taxonomy,           \* the table get_glottolog() returns: a sequence of rows
    language_location,  \* geo_filter_glottocodes: the location argument
    buffer,             \* geo_filter_glottocodes: the buffer argument (km)
    level,              \* geo_filter_glottocodes: the level argument
    stages,             \* the statements of geo_filter_glottocodes executed so far
    near,               \* local of geo_filter_glottocodes: the id list of the join
    candidate_ids,      \* local of geo_filter_glottocodes: the id set
    outcome,            \* "none", "ok" or the exception geo_filter_glottocodes raised
    returned,           \* the table geo_filter_glottocodes returned
    language,           \* verify_glottocode_guess / check_name: the language argument
    glottocode,         \* verify_glottocode_guess: the glottocode argument
    pc,                 \* verify_glottocode_guess: "idle", "walk", "fetch" or "done"
    current_glottocode, \* local of find_ancestors
    ancestors,          \* local of find_ancestors, then of verify_glottocode_guess
    response,           \* what requests.get(url) did
    parsed,             \* whether parse_ini was called on the response
    verdict,            \* what verify_glottocode_guess did: returned or raised
    name_glottolog,     \* check_name: the primary name argument
    alt_names_glottolog,\* check_name: the alternative names argument
    matched,            \* check_name: whether it has returned, and what
    cache_file,         \* get_lookup_table: the file languoid.csv of the cache
    cache_before,       \* the cache file as it was when the last load began
    load_result,        \* what the last load did: returned or raised
    loads,              \* the number of loads so far
    candidate_ids_arg,  \* find_parents: the candidate_ids argument
    found_parents       \* find_parents: whether it has returned, and what

resolveVars == <<language_location, buffer, level, stages, near, candidate_ids,
                 outcome, returned>>

verifyVars == <<glottocode, pc, current_glottocode, ancestors, response, parsed,
                verdict>>

nameVars == <<name_glottolog, alt_names_glottolog, matched>>

loadVars == <<cache_file, cache_before, load_result, loads>>

relativesVars == <<candidate_ids_arg, found_parents>>

restVars == <<loadVars, relativesVars>>

vars == <<taxonomy, resolveVars, language, verifyVars, nameVars, restVars>>

-----------------------------------------------------------------------------
(* Bounds of the model. *)

\* The largest number of shapes in a GeoSeries passed as the location.
MaxShapes == 2

\* The longest list find_ancestors is followed to (a walk on a parent cycle
\* grows its list without end).
MaxPath == 5

\* The longest language name passed to check_name, in characters.
MaxLen == 3

-----------------------------------------------------------------------------
(* Values. *)

NaN == "NaN"

isinstance_str(v) == v # NaN

Ids == {"A", "B", "C"}

\* A parent_id that names no row of the table.
Dangling == "Z"

Levels == {"dialect", "language", "family"}

ValidLevels == {"all", "language", "dialect", "family"}

Pt(lon, lat) == [lon |-> lon, lat |-> lat]

\* Rows whose longitude / latitude are NaN get an empty point from points_from_xy.
NoPoint == [has |-> FALSE, lon |-> 0, lat |-> 0]

At(lon, lat) == [has |-> TRUE, lon |-> lon, lat |-> lat]

Row(id, parent_id, lvl, point) ==
    [id |-> id, parent_id |-> parent_id, level |-> lvl, geometry |-> point]

-----------------------------------------------------------------------------
(* Sequence helpers. *)

Range(s) == {s[i] : i \in DOMAIN s}

RECURSIVE Flatten(_)
Flatten(ss) == IF ss = <<>> THEN <<>> ELSE Head(ss) \o Flatten(Tail(ss))

Column(table, col) == [i \in DOMAIN table |-> table[i][col]]

RECURSIVE Reverse(_)
Reverse(s) == IF s = <<>> THEN <<>> ELSE Append(Reverse(Tail(s)), Head(s))

-----------------------------------------------------------------------------
(* The projection and the spatial predicate. *)

\* Kilometres per tenth of a degree of longitude / latitude near latitude 46.
KmPerTenthLon == 8
KmPerTenthLat == 11

to_crs(p) == [x |-> p.lon * KmPerTenthLon, y |-> p.lat * KmPerTenthLat]

Sq(n) == n * n

\* A wrong predicate: the points outside the buffer.
within_outside(point, shape, km) ==
    /\ point.has
    /\ LET a == [x |-> point.lon * 8, y |-> point.lat * 11]
           b == [x |-> shape.lon * 8, y |-> shape.lat * 11]
       IN  (a.x - b.x) * (a.x - b.x) + (a.y - b.y) * (a.y - b.y) >= km * km

\* predicate='within' of a point against the buffer of radius km around shape:
\* the point is in the interior of the disc; an empty point is within nothing.
within(point, shape, km) ==
    /\ point.has
    /\ km > 0
    /\ LET a == to_crs(point)
           b == to_crs(shape)
       IN  Sq(a.x - b.x) + Sq(a.y - b.y) < Sq(km)

\* gpd.sjoin(...)['id'].tolist(): one entry per (row, buffer polygon) pair.
sjoin(table, shapes, km) ==
    Flatten([i \in DOMAIN table |->
        Flatten([j \in DOMAIN shapes |->
            IF within(table[i].geometry, shapes[j], km)
            THEN <<table[i].id>> ELSE <<>>])])

-----------------------------------------------------------------------------
(* find_children, find_parents. *)

\* The two columns confused: the ids themselves instead of their children.
find_children_swapped(ids, relatives) ==
    Column(SelectSeq(relatives, LAMBDA r : r.id \in Range(ids)), "id")

find_children(ids, relatives) ==
    Column(SelectSeq(relatives, LAMBDA r : r.parent_id \in Range(ids)), "id")

\* The test isinstance(p, str) forgotten.
find_parents_unfiltered(ids, relatives) ==
    Column(SelectSeq(relatives, LAMBDA r : r.id \in Range(ids)), "parent_id")

find_parents(ids, relatives) ==
    SelectSeq(Column(SelectSeq(relatives, LAMBDA r : r.id \in Range(ids)),
                     "parent_id"),
              isinstance_str)

-----------------------------------------------------------------------------
(* process_location. *)

Supported == {"tuple", "Point", "GeoSeries"}

\* The GeoSeries process_location returns; defined for the supported kinds.
process_location(location) == location.geoms

\* glottolog_geometries.loc[glottolog_geometries['id'].isin(candidate_ids)]
select_candidates(table, ids) == SelectSeq(table, LAMBDA r : r.id \in ids)

\* The level filter forgotten.
filter_level_none(candidates, lvl) == candidates

filter_level(candidates, lvl) == SelectSeq(candidates, LAMBDA r : r.level = lvl)

-----------------------------------------------------------------------------
(* Inputs. *)

PA == Pt(20, 460)
Q2 == Pt(23, 460)

QueryPoints == {PA, Q2}

Locations ==
    {[kind |-> "tuple", geoms |-> <<p>>] : p \in QueryPoints}
    \cup {[kind |-> "GeoSeries", geoms |-> s] :
            s \in UNION {[1..n -> QueryPoints] : n \in 1..MaxShapes}}
    \cup {[kind |-> "list", geoms |-> <<>>]}

Buffers == {0, 23, 30, 50}

LevelArgs == ValidLevels \cup {"dialectt"}

ParentsOf(id) == {NaN, Dangling} \cup (Ids \ {id})


LevelMaps ==
    {[A |-> "family", B |-> "language", C |-> "dialect"],
     [A |-> "language", B |-> "language", C |-> "dialect"]}

Taxonomies ==
    {<<Row("A", parA, lv.A, ga), Row("B", parB, lv.B, gb),
       Row("C", parC, lv.C, gc)>> :
        parA \in ParentsOf("A"), parB \in ParentsOf("B"), parC \in ParentsOf("C"),
        ga \in {NoPoint, At(20, 460)},
        gb \in {NoPoint, At(23, 462)},
        gc \in {NoPoint, At(23, 462)},
        lv \in LevelMaps}

-----------------------------------------------------------------------------
(* The state of the cache and of find_parents before any call. *)

NoFile == [exists |-> FALSE, content |-> <<>>]

NoLoad == [op |-> "none", kind |-> "none", exc |-> "none"]

InitLoad ==
    /\ cache_file = NoFile
    /\ cache_before = NoFile
    /\ load_result = NoLoad
    /\ loads = 0

InitRelatives ==
    /\ candidate_ids_arg = <<>>
    /\ found_parents = [returned |-> FALSE, value |-> <<>>]

InitRest == InitLoad /\ InitRelatives

-----------------------------------------------------------------------------
(* geo_filter_glottocodes, one call. *)

Spatial == {"get_glottolog", "estimate_utm_crs", "buffer", "sjoin",
            "find_children", "find_parents", "select"}

InitResolve ==
    /\ language_location = [kind |-> "none", geoms |-> <<>>]
    /\ buffer = 0
    /\ level = "none"
    /\ stages = {}
    /\ near = <<>>
    /\ candidate_ids = {}
    /\ outcome = "none"
    /\ returned = <<>>

\* The children left out of the union.
combine_no_children(near_, children, parents) ==
    Range(near_) \cup Range(parents)

\* The nearby ids themselves left out of the union.
combine_no_near(near_, children, parents) ==
    Range(children) \cup Range(parents)

\* candidate_ids = { *near, *children, *parents }
combine(near_, children, parents) ==
    Range(near_) \cup Range(children) \cup Range(parents)

\* The locals and the result of a call that gets past process_location.
resolve(table, loc, km, lvl) ==
    LET language_geometry == process_location(loc)
        near_ == sjoin(table, language_geometry, km)
        children == find_children(near_, table)
        parents == find_parents(near_, table)
        ids == combine(near_, children, parents)
        candidates == select_candidates(table, ids)
    IN  [near |-> near_,
         candidate_ids |-> ids,
         outcome |-> IF lvl \notin ValidLevels THEN "ValueError" ELSE "ok",
         returned |-> IF lvl \notin ValidLevels THEN <<>>
                      ELSE IF lvl = "all" THEN candidates
                      ELSE filter_level(candidates, lvl)]

geo_filter_glottocodes(loc, km, lvl) ==
    /\ outcome = "none"
    /\ language_location' = loc
    /\ buffer' = km
    /\ level' = lvl
    /\ IF loc.kind \notin Supported
       THEN \* process_location raises TypeError
            /\ outcome' = "TypeError"
            /\ stages' = {"process_location"}
            /\ UNCHANGED <<near, candidate_ids, returned>>
       ELSE LET r == resolve(taxonomy, loc, km, lvl)
            IN  /\ near' = r.near
                /\ candidate_ids' = r.candidate_ids
                \* the level is validated after the candidates are selected
                /\ stages' = {"process_location"} \cup Spatial
                /\ outcome' = r.outcome
                /\ returned' = r.returned
    /\ UNCHANGED <<taxonomy, language, verifyVars, nameVars, restVars>>

InitVerify ==
    /\ glottocode = "none"
    /\ pc = "idle"
    /\ current_glottocode = NaN
    /\ ancestors = <<>>
    /\ response = [kind |-> "none", status |-> 0, exc |-> "none", text |-> <<>>,
                   url |-> <<>>]
    /\ parsed = FALSE
    /\ verdict = [kind |-> "none", value |-> FALSE, exc |-> "none"]

InitName ==
    /\ name_glottolog = <<>>
    /\ alt_names_glottolog = <<>>
    /\ matched = [returned |-> FALSE, value |-> FALSE]

Init ==
    /\ taxonomy \in Taxonomies
    /\ InitResolve
    /\ language = <<>>
    /\ InitVerify
    /\ InitName
    /\ InitRest

Next == \E loc \in Locations, km \in Buffers, lvl \in LevelArgs :
            geo_filter_glottocodes(loc, km, lvl)

Spec == Init /\ [][Next]_vars

-----------------------------------------------------------------------------
(* What the claims about geo_filter_glottocodes speak of. *)

\* The ids of a table.
IdsOf(table) == {table[i].id : i \in DOMAIN table}

\* No id occurs in two rows of the table.
NoDuplicateIds(table) ==
    \A i, j \in DOMAIN table : table[i].id = table[j].id => i = j

\* The seed: the rows whose point is less than km away from one of the shapes.
SeedOf(table, shapes, km) ==
    {r.id : r \in {q \in Range(table) :
        /\ q.geometry.has
        /\ km > 0
        /\ \E j \in DOMAIN shapes :
              Sq((q.geometry.lon - shapes[j].lon) * KmPerTenthLon)
              + Sq((q.geometry.lat - shapes[j].lat) * KmPerTenthLat) < Sq(km)}}

Seed == SeedOf(taxonomy, language_location.geoms, buffer)

\* Every id whose parent_id is in S.
ChildrenOf(S) == {r.id : r \in {q \in Range(taxonomy) : q.parent_id \in S}}

\* Every string parent_id of a row whose id is in S.
ParentsOfSet(S) ==
    {r.parent_id : r \in {q \in Range(taxonomy) : q.id \in S}} \ {NaN}

Extended == Seed \cup ChildrenOf(Seed) \cup ParentsOfSet(Seed)

\* C1: with level 'all' a call returns exactly the rows of the taxonomy whose
\* id is in seed, children(seed) or parents(seed); an id of that union that
\* has no row contributes no row.
C1_AllReturnsExtendedRows ==
    (outcome = "ok" /\ level = "all") =>
        /\ Range(returned) = {r \in Range(taxonomy) : r.id \in Extended}
        /\ IdsOf(returned) = Extended \cap IdsOf(taxonomy)

\* A call with level 'all' whose seed has a child and a parent outside the
\* seed and a parent that names no row.
C1_Witness ==
    /\ outcome = "ok" /\ level = "all"
    /\ ChildrenOf(Seed) \ Seed # {}
    /\ (ParentsOfSet(Seed) \cap IdsOf(taxonomy)) \ Seed # {}
    /\ Dangling \in ParentsOfSet(Seed)
    /\ Len(returned) = 3

\* C2 (as claimed): a call with an unrecognised level, on a location and a
\* taxonomy that would otherwise succeed, raises the invalid-argument error
\* before any spatial work has been performed.
C2_InvalidLevelBeforeSpatialWork ==
    (outcome # "none" /\ level \notin ValidLevels
        /\ language_location.kind \in Supported) =>
        (outcome = "ValueError" /\ stages \cap Spatial = {})

\* Scenario A of the specification.
ScenarioA ==
    <<Row("A", NaN, "family", At(20, 460)),
      Row("B", "A", "language", At(23, 462)),
      Row("C", "B", "dialect", NoPoint)>>

InScenarioA ==
    /\ taxonomy = ScenarioA
    /\ language_location = [kind |-> "tuple", geoms |-> <<Pt(20, 460)>>]
    /\ buffer = 50
    /\ outcome = "ok"

\* C3 (as claimed): in scenario A the call returns {A, B} for level 'all' and
\* {B} for level 'language'.
C3_ScenarioA_Claimed ==
    InScenarioA =>
        /\ level = "all" => IdsOf(returned) = {"A", "B"}
        /\ level = "language" => IdsOf(returned) = {"B"}

\* C3 (amended): in scenario A the call returns {A, B, C} for level 'all': C
\* has no point and is no seed, but it is a child of the seed B; and {B} for
\* level 'language'.
C3_ScenarioA ==
    InScenarioA =>
        /\ Range(near) = {"A", "B"}
        /\ level = "all" => IdsOf(returned) = {"A", "B", "C"}
        /\ level = "language" => IdsOf(returned) = {"B"}

C3_Witness == InScenarioA /\ level = "all" /\ Len(returned) = 3

\* C8: for the same location, taxonomy and level, the ids returned for a
\* smaller buffer are among the ids returned for the buffer of this call.
C8_BufferMonotone ==
    outcome = "ok" =>
        \A r1 \in Buffers : r1 < buffer =>
            IdsOf(resolve(taxonomy, language_location, r1, level).returned)
                \subseteq IdsOf(returned)

\* A call that returns strictly more than the same call with a smaller,
\* non-empty buffer does.
C8_Witness ==
    /\ outcome = "ok"
    /\ \E r1 \in Buffers :
        /\ r1 < buffer
        /\ LET small == IdsOf(resolve(taxonomy, language_location, r1,
                                      level).returned)
           IN small # {} /\ small # IdsOf(returned)

\* C9: a returned table holds no id twice, also when the query geometry is a
\* collection of overlapping shapes, and when the level is not 'all' every
\* returned row has exactly the requested level.
C9_NoDuplicatesAndLevel ==
    outcome = "ok" =>
        /\ NoDuplicateIds(returned)
        /\ level # "all" => \A i \in DOMAIN returned : returned[i].level = level

\* A call with overlapping shapes (an id is twice in the join's list), a
\* level filter that keeps a row and drops a candidate of another level.
C9_Witness ==
    /\ outcome = "ok" /\ level # "all"
    /\ Len(near) > Cardinality(Range(near))
    /\ returned # <<>>
    /\ IdsOf(returned) # candidate_ids \cap IdsOf(taxonomy)

\* C10 (as claimed): every id of the seed is among the ids a call returns.
C10_SeedReturned_Claimed ==
    outcome = "ok" => Seed \subseteq IdsOf(returned)

\* C10 (amended): the expansion removes no seed: every seed is in the candidate
\* ids, and is returned when the level is 'all'; with another level exactly
\* the seeds of that level are among the returned ids.
C10_SeedReturned ==
    outcome = "ok" =>
        /\ Seed \subseteq candidate_ids
        /\ level = "all" => Seed \subseteq IdsOf(returned)
        /\ level # "all" =>
              \A r \in Range(taxonomy) :
                  r.id \in Seed => (r.id \in IdsOf(returned) <=> r.level = level)

\* A call with a level filter that drops a seed and keeps another.
C10_Witness ==
    /\ outcome = "ok" /\ level # "all"
    /\ Seed \ IdsOf(returned) # {}
    /\ Seed \cap IdsOf(returned) # {}

-----------------------------------------------------------------------------
(* Strings are sequences of characters. *)

French == <<"F", "r", "e", "n", "c", "h">>
french == <<"f", "r", "e", "n", "c", "h">>
french_lead == <<" ", " ", "f", "r", "e", "n", "c", "h">>
french_trail == <<"f", "r", "e", "n", "c", "h", " ">>
Francais == <<"F", "r", "a", "n", "c", "a", "i", "s">>
Frans == <<"F", "r", "a", "n", "s">>
frans == <<"f", "r", "a", "n", "s">>
\* The value of a key that holds two names and an empty line between them.
frans_french == <<"F", "r", "a", "n", "s", "\n", "\n", "f", "r", "e", "n", "c", "h">>

Whitespace == {" ", "\n"}

\* str.lower(), character by character.
lower_char(c) == IF c = "F" THEN "f" ELSE c

lower(s) == [i \in DOMAIN s |-> lower_char(s[i])]

RECURSIVE lstrip(_)
lstrip(s) ==
    IF s # <<>> /\ Head(s) \in Whitespace THEN lstrip(Tail(s)) ELSE s

RECURSIVE rstrip(_)
rstrip(s) ==
    IF s # <<>> /\ s[Len(s)] \in Whitespace
    THEN rstrip(SubSeq(s, 1, Len(s) - 1)) ELSE s

\* Both ends stripped: s.lower().strip().
norm_strip(s) == rstrip(lstrip(lower(s)))

\* norm = lambda s: s.lower().lstrip()
norm(s) == lstrip(lower(s))

\* value.split('\n'): the pieces between the newlines, empty ones included.
RECURSIVE split(_, _)
split(s, piece) ==
    IF s = <<>> THEN <<piece>>
    ELSE IF Head(s) = "\n" THEN <<piece>> \o split(Tail(s), <<>>)
    ELSE split(Tail(s), Append(piece, Head(s)))

-----------------------------------------------------------------------------
(* check_name. *)

check_name(lang, name, alt_names) ==
    \/ norm(name) = norm(lang)
    \/ \E source \in DOMAIN alt_names :
         \E i \in DOMAIN alt_names[source] :
             norm(alt_names[source][i]) = norm(lang)

Alphabet == {"F", "f", " "}

StringsUpTo(n) == UNION {[1..k -> Alphabet] : k \in 0..n}

LanguageArgs ==
    StringsUpTo(MaxLen) \cup {French, french, french_lead, french_trail, Francais}

ReferenceNames == StringsUpTo(MaxLen - 1) \cup {French, french}

AltNameArgs ==
    {<<>>}
    \cup {[glottolog |-> <<n>>] : n \in ReferenceNames}
    \cup {[glottolog |-> <<Frans>>, ethnologue |-> <<Francais, n>>] :
            n \in {French, french, <<"f", " ">>}}

\* One call of check_name on the arguments the initial state holds.
check_name_call ==
    /\ ~matched.returned
    /\ matched' = [returned |-> TRUE,
                   value |-> check_name(language, name_glottolog,
                                        alt_names_glottolog)]
    /\ UNCHANGED <<taxonomy, resolveVars, language, verifyVars, restVars,
                   name_glottolog, alt_names_glottolog>>

NextName == check_name_call

\* The taxonomy plays no part in check_name.
InitNameSpec ==
    /\ taxonomy = <<>>
    /\ InitResolve
    /\ InitVerify
    /\ language \in LanguageArgs
    /\ name_glottolog \in ReferenceNames
    /\ alt_names_glottolog \in AltNameArgs
    /\ matched = [returned |-> FALSE, value |-> FALSE]
    /\ InitRest

SpecName == InitNameSpec /\ [][NextName]_vars

-----------------------------------------------------------------------------
(* What the claim about check_name speaks of. *)

\* The number of whitespace characters s starts with.
RECURSIVE Leading(_)
Leading(s) == IF s # <<>> /\ Head(s) \in Whitespace THEN 1 + Leading(Tail(s)) ELSE 0

\* a and b are the same up to the case of F and to leading whitespace.
SameName(a, b) ==
    LET ka == Leading(a)
        kb == Leading(b)
    IN  /\ Len(a) - ka = Len(b) - kb
        /\ \A i \in 1..(Len(a) - ka) :
              \/ a[ka + i] = b[kb + i]
              \/ {a[ka + i], b[kb + i]} = {"F", "f"}

AllAltNames ==
    UNION {{alt_names_glottolog[src][i] : i \in DOMAIN alt_names_glottolog[src]} :
            src \in DOMAIN alt_names_glottolog}

\* C4: check_name returns true exactly when the language, lower-cased and
\* stripped of leading whitespace only, equals the primary name or an
\* alternative name normalised the same way: 'French', 'french' and
\* '  french' match 'French'; 'french ' does not match 'french'.
C4_CheckNameExact ==
    matched.returned =>
        /\ matched.value = (\E n \in {name_glottolog} \cup AllAltNames :
                          SameName(language, n))
        /\ (name_glottolog = French
                /\ language \in {French, french, french_lead}) => matched.value
        /\ (name_glottolog = french /\ alt_names_glottolog = <<>>
                /\ language = french_trail) => ~matched.value

\* 'french ' was compared with the reference 'french' and did not match, while
\* '  french' would.
C4_Witness ==
    /\ matched.returned /\ ~matched.value
    /\ language = french_trail
    /\ name_glottolog = french
    /\ alt_names_glottolog = [glottolog |-> <<french>>]
    /\ check_name(french_lead, name_glottolog, alt_names_glottolog)

-----------------------------------------------------------------------------
(* find_ancestors, one iteration of its loop at a time. *)

\* relatives[relatives['id'] == current_glottocode]
match_rows(relatives, id) == SelectSeq(relatives, LAMBDA r : r.id = id)

\* The test of the loop forgotten: while True.
walk_continues_always(parent) == TRUE

\* A single look at the parent instead of a loop.
walk_continues_once(parent) == FALSE

\* while isinstance(current_glottocode, str)
walk_continues(parent) == isinstance_str(parent)

\* The list returned as the loop built it, the queried id first.
finish_walk_unreversed(path) == path

\* ancestors.reverse(); return ancestors
finish_walk(path) == Reverse(path)

\* '/'.join(ancestors) + '/md.ini' under the header: the segments of the url.
build_url(path) == path \o <<"md.ini">>

-----------------------------------------------------------------------------
(* parse_ini, extract_altnames.  A document is a sequence of lines: a section *)
(* header, a key with its value, or a line that is neither.                  *)

Header(name) == [t |-> "header", section |-> name, key |-> "", value |-> <<>>]
Option(key, value) == [t |-> "option", section |-> "", key |-> key, value |-> value]
Junk == [t |-> "junk", section |-> "", key |-> "", value |-> <<>>]

\* configparser: the sections read so far are d, the open section is cur.
RECURSIVE read_file(_, _, _)
read_file(lines, cur, d) ==
    IF lines = <<>> THEN [exc |-> "none", dict |-> d]
    ELSE LET l == Head(lines) IN
         IF l.t = "header"
         THEN IF l.section \in DOMAIN d
              THEN [exc |-> "DuplicateSectionError", dict |-> d]
              ELSE read_file(Tail(lines), l.section,
                             [s \in DOMAIN d \cup {l.section} |->
                                 IF s = l.section THEN <<>> ELSE d[s]])
         ELSE IF cur = "" THEN [exc |-> "MissingSectionHeaderError", dict |-> d]
         ELSE IF l.t = "junk" THEN [exc |-> "ParsingError", dict |-> d]
         ELSE IF l.key \in DOMAIN d[cur]
              THEN [exc |-> "DuplicateOptionError", dict |-> d]
         ELSE read_file(Tail(lines), cur,
                        [d EXCEPT ![cur] =
                            [k \in DOMAIN d[cur] \cup {l.key} |->
                                IF k = l.key THEN l.value ELSE d[cur][k]]])

parse_ini(resp) == read_file(resp, "", <<>>)

\* altnames = response.get('altnames', {}), each value split into its names.
extract_altnames(dict) ==
    IF "altnames" \notin DOMAIN dict THEN <<>>
    ELSE [key \in DOMAIN dict["altnames"] |->
            SelectSeq(split(dict["altnames"][key], <<>>), LAMBDA v : v # <<>>)]

-----------------------------------------------------------------------------
(* verify_glottocode_guess. *)

Returned(b) == [kind |-> "return", value |-> b, exc |-> "none"]
Raised(e) == [kind |-> "raise", value |-> FALSE, exc |-> e]

\* A handler that catches every exception.
caught_any(e) == TRUE

\* except IndexError
caught(e) == e = "IndexError"

\* The body of the try after requests.get has answered or failed.
after_fetch(lang, resp) ==
    IF resp.kind = "error" THEN [parsed |-> FALSE, exc |-> resp.exc, value |-> FALSE]
    ELSE IF resp.status = 404 THEN [parsed |-> FALSE, exc |-> "none", value |-> FALSE]
    ELSE LET ini == parse_ini(resp.text) IN
         IF ini.exc # "none" THEN [parsed |-> TRUE, exc |-> ini.exc, value |-> FALSE]
         ELSE IF "core" \notin DOMAIN ini.dict
                 \/ "name" \notin DOMAIN ini.dict["core"]
              THEN [parsed |-> TRUE, exc |-> "KeyError", value |-> FALSE]
         ELSE [parsed |-> TRUE, exc |-> "none",
               value |-> check_name(lang, ini.dict["core"]["name"],
                                    extract_altnames(ini.dict))]

\* What the call does with the outcome of the try body.
try_except(r) ==
    IF r.exc = "none" THEN Returned(r.value)
    ELSE IF caught(r.exc) THEN Returned(FALSE)
    ELSE Raised(r.exc)

Glottocodes == Ids \cup {Dangling, "X"}

VerifyLanguages == {French, Francais, frans, french_trail}

Documents ==
    {<<Header("core"), Option("name", French), Header("altnames"),
       Option("glottolog", frans_french)>>,
     <<Header("core"), Option("name", French)>>,
     <<Header("altnames"), Option("glottolog", frans_french)>>,
     <<Header("core"), Option("level", french)>>,
     <<Option("name", French)>>,
     <<Header("core"), Option("name", French), Junk>>,
     <<Header("core"), Header("core"), Option("name", French)>>,
     <<Header("core"), Option("name", French), Option("name", french)>>,
     <<>>}

Responses ==
    {[kind |-> "error", status |-> 0, exc |-> e, text |-> <<>>, url |-> <<>>] :
        e \in {"ConnectionError", "Timeout"}}
    \cup {[kind |-> "response", status |-> 404, exc |-> "none", text |-> <<>>,
           url |-> <<>>]}
    \cup {[kind |-> "response", status |-> st, exc |-> "none", text |-> doc,
           url |-> <<>>] :
            st \in {200, 500}, doc \in Documents}

\* The table of the walk: every parent link over the ids, self links included.
WalkTaxonomies ==
    {<<Row("A", parA, "family", NoPoint), Row("B", parB, "language", NoPoint),
       Row("C", parC, "dialect", NoPoint)>> :
        parA \in Ids \cup {NaN, Dangling}, parB \in Ids \cup {NaN, Dangling},
        parC \in Ids \cup {NaN, Dangling}}

\* The call, up to the first test of the loop of find_ancestors.
verify_glottocode_guess(lang, code) ==
    /\ pc = "idle"
    /\ language' = lang
    /\ glottocode' = code
    /\ current_glottocode' = code
    /\ ancestors' = <<>>
    /\ pc' = "walk"
    /\ UNCHANGED <<taxonomy, resolveVars, response, parsed, verdict, nameVars,
                   restVars>>

\* One iteration of the loop; the iteration that ends the loop also reverses
\* the list and returns it.
find_ancestors_step ==
    /\ pc = "walk"
    /\ Len(ancestors) < MaxPath
    /\ LET path == Append(ancestors, current_glottocode)
           match == match_rows(taxonomy, current_glottocode)
       IN  IF match = <<>>
           THEN /\ ancestors' = finish_walk(path)
                /\ pc' = "fetch"
                /\ UNCHANGED current_glottocode
           ELSE /\ current_glottocode' = match[1].parent_id
                /\ IF walk_continues(match[1].parent_id)
                   THEN /\ ancestors' = path
                        /\ pc' = "walk"
                   ELSE /\ ancestors' = finish_walk(path)
                        /\ pc' = "fetch"
    /\ UNCHANGED <<taxonomy, resolveVars, language, glottocode, response, parsed,
                   verdict, nameVars, restVars>>

\* requests.get(url) and the rest of the call.
fetch_and_check(resp) ==
    /\ pc = "fetch"
    /\ response' = [resp EXCEPT !.url = build_url(ancestors)]
    /\ LET r == after_fetch(language, resp)
       IN  /\ parsed' = r.parsed
           /\ verdict' = try_except(r)
    /\ pc' = "done"
    /\ UNCHANGED <<taxonomy, resolveVars, language, glottocode,
                   current_glottocode, ancestors, nameVars, restVars>>

NextVerify ==
    \/ \E lang \in VerifyLanguages, code \in Glottocodes :
          verify_glottocode_guess(lang, code)
    \/ find_ancestors_step
    \/ \E resp \in Responses : fetch_and_check(resp)

InitVerifySpec ==
    /\ taxonomy \in WalkTaxonomies
    /\ InitResolve
    /\ language = <<>>
    /\ InitVerify
    /\ InitName
    /\ InitRest

\* The loop of find_ancestors runs on as long as its test holds; the fetch is
\* not assumed to answer.
SpecVerify ==
    InitVerifySpec /\ [][NextVerify]_vars /\ WF_vars(find_ancestors_step)

-----------------------------------------------------------------------------
(* What the claims about verify_glottocode_guess and find_ancestors speak of. *)

\* C5: a 'not found' answer makes the call return false without raising and
\* without parsing a record; a failure of the fetch itself is raised to the
\* caller and is not turned into a boolean.
C5_NotFoundIsFalseFailurePropagates ==
    pc = "done" =>
        /\ (response.kind = "response" /\ response.status = 404) =>
              (verdict.kind = "return" /\ ~verdict.value /\ ~parsed)
        /\ response.kind = "error" =>
              (verdict.kind = "raise" /\ verdict.exc = response.exc)

\* The record source answered 'not found' to a path of three ancestors.
C5_Witness ==
    /\ pc = "done"
    /\ response.kind = "response" /\ response.status = 404
    /\ Len(response.url) = 4
    /\ verdict = Returned(FALSE)

\* The record cannot be parsed as a sectioned key/value document.
Malformed(doc) ==
    \/ \E i \in DOMAIN doc :
          doc[i].t # "header" /\ \A j \in 1..(i - 1) : doc[j].t # "header"
    \/ \E i \in DOMAIN doc : doc[i].t = "junk"
    \/ \E i, j \in DOMAIN doc :
          i < j /\ doc[i].t = "header" /\ doc[j].t = "header"
                /\ doc[i].section = doc[j].section
    \/ \E i, j \in DOMAIN doc :
          /\ i < j /\ doc[i].t = "option" /\ doc[j].t = "option"
          /\ doc[i].key = doc[j].key
          /\ \A k \in i..j : doc[k].t # "header"

\* The record has no core section or no name in it.
Incomplete(doc) ==
    ~ \E i, j \in DOMAIN doc :
          /\ i < j
          /\ doc[i] = Header("core")
          /\ doc[j].t = "option" /\ doc[j].key = "name"
          /\ \A k \in (i + 1)..(j - 1) : doc[k].t # "header"

\* C6 (as claimed): a fetched record that is malformed or incomplete makes the
\* call return false; it never raises out of the call.
C6_BadRecordReturnsFalse ==
    (pc = "done" /\ response.kind = "response" /\ response.status = 200
        /\ (Malformed(response.text) \/ Incomplete(response.text))) =>
        (verdict.kind = "return" /\ ~verdict.value)

\* The parent_id of the row of id, NaN when there is no such row.
ParentOf(id) ==
    LET m == match_rows(taxonomy, id) IN IF m = <<>> THEN NaN ELSE m[1].parent_id

\* The ids reached from id by one to n parent links.
RECURSIVE Up(_, _)
Up(id, n) ==
    IF n = 0 \/ ParentOf(id) = NaN THEN {}
    ELSE {ParentOf(id)} \cup Up(ParentOf(id), n - 1)

\* The parent_id edges contain no cycle.
Acyclic == \A id \in IdsOf(taxonomy) : id \notin Up(id, Len(taxonomy))

PathOfWalk ==
    /\ ancestors # <<>>
    /\ ancestors[Len(ancestors)] = glottocode
    /\ ParentOf(ancestors[1]) \notin IdsOf(taxonomy)
    /\ \A i \in 1..(Len(ancestors) - 1) : ParentOf(ancestors[i + 1]) = ancestors[i]

\* C7: on a taxonomy without a parent cycle the walk from any id terminates,
\* and the path it returns ends with the input id, starts with an id that has
\* no resolvable parent in the table, and holds before each element its
\* parent_id.
C7_AcyclicWalkTerminates ==
    /\ [](Acyclic /\ pc = "walk" => <>(pc = "fetch"))
    /\ [](Acyclic /\ pc \in {"fetch", "done"} => PathOfWalk)

\* A walk over three rows up to a parent that names no row.
C7_Witness ==
    /\ Acyclic
    /\ pc = "fetch"
    /\ Len(ancestors) = 4
    /\ ancestors[1] = Dangling

Returned_Path == pc \in {"fetch", "done"}

\* C13 (as claimed): an id is appended to the path only when its row is found,
\* so every element of a returned path is the id of an existing row: an
\* unknown input id or a dangling parent reference never appears in it.
C13_PathOfExistingRows_Claimed ==
    Returned_Path => \A i \in DOMAIN ancestors : ancestors[i] \in IdsOf(taxonomy)

\* C13 (amended): the current id is appended to the path before its row is
\* looked up, and when the row is absent the walk stops after appending it.
\* So every element of a returned path but the first is the id of an existing
\* row, and the first is a string that is the id of a row or else the id the
\* walk stopped at: the unknown input id itself, or the dangling parent_id of
\* the second element.
C13_PathOfExistingRows ==
    Returned_Path =>
        /\ \A i \in 2..Len(ancestors) : ancestors[i] \in IdsOf(taxonomy)
        /\ ancestors # <<>> /\ ancestors[1] # NaN
        /\ glottocode \notin IdsOf(taxonomy) => ancestors = <<glottocode>>
        /\ \A i \in 2..Len(ancestors) :
              (ParentOf(ancestors[i]) # NaN
                    /\ ParentOf(ancestors[i]) \notin IdsOf(taxonomy))
                  => (i = 2 /\ ancestors[1] = ParentOf(ancestors[2]))
        /\ ancestors[1] \notin IdsOf(taxonomy) =>
              \/ ancestors = <<glottocode>>
              \/ Len(ancestors) > 1 /\ ancestors[1] = ParentOf(ancestors[2])

\* The call on an id without a row: the path is that id alone, and the record
\* asked for is <header>/X/md.ini.
C13_Witness ==
    /\ pc = "done"
    /\ glottocode = "X"
    /\ ancestors = <<"X">>
    /\ response.url = <<"X", "md.ini">>

\* The parent chain from id reaches a parent cycle.
ReachesCycle(id) ==
    \E x \in {id} \cup Up(id, Len(taxonomy)) : x \in Up(x, Len(taxonomy))

\* C14: the walk detects no cycle: when the parent chain of the input id
\* reaches a parent cycle the walk never ends (it returns no path and raises
\* nothing), and so the verification of that id never returns either.
C14_CyclicWalkNeverReturns ==
    (pc # "idle" /\ ReachesCycle(glottocode)) =>
        (pc = "walk" /\ verdict.kind = "none" /\ response.kind = "none")

\* A walk that has gone round a cycle: an id is in the list twice and the loop
\* is still running.
C14_Witness ==
    /\ pc = "walk"
    /\ ReachesCycle(glottocode)
    /\ \E i, j \in DOMAIN ancestors : i < j /\ ancestors[i] = ancestors[j]
    /\ isinstance_str(current_glottocode)

-----------------------------------------------------------------------------
(* get_lookup_table, get_glottolog.  The cache file holds the rows written   *)
(* to it; the archive of a download holds one of the published tables.       *)

\* The largest number of loads in a behaviour.
MaxLoads == 3

\* The tables the source publishes: scenario A, and a later release of it.
PublishedTables ==
    {ScenarioA,
     <<Row("A", NaN, "family", At(20, 460)),
       Row("B", NaN, "language", At(23, 462)),
       Row("C", "B", "dialect", NoPoint)>>}

\* What a download meets: the request fails, the archive is unreadable or
\* lacks languoid.csv, reading the member fails, the write to the cache file
\* fails after `written` rows, or everything succeeds.
Downloads ==
    {[step |-> st, table |-> <<>>, written |-> 0] :
        st \in {"ConnectionError", "HTTPError", "BadZipFile", "FileNotFoundError"}}
    \cup {[step |-> "read_error", table |-> t, written |-> 0] : t \in PublishedTables}
    \cup {[step |-> "write_error", table |-> t, written |-> k] :
            t \in PublishedTables, k \in 0..2}
    \cup {[step |-> "ok", table |-> t, written |-> Len(t)] : t \in PublishedTables}

\* cache_file.open('wb'): the file exists and is empty.
open_wb(file) == [exists |-> TRUE, content |-> <<>>]

\* target.write(...): the rows that reach the file.
write(file, table, written) ==
    [file EXCEPT !.content = SubSeq(table, 1, written)]

\* The cache file and the outcome of get_lookup_table(force_refresh).
lookup_table(file, force_refresh, d) ==
    IF file.exists /\ ~force_refresh
    THEN [file |-> file, kind |-> "return", exc |-> "none"]
    ELSE IF d.step \in {"ConnectionError", "HTTPError", "BadZipFile",
                        "FileNotFoundError"}
    THEN [file |-> file, kind |-> "raise", exc |-> d.step]
    ELSE IF d.step = "read_error"
    THEN [file |-> open_wb(file), kind |-> "raise", exc |-> "BadZipFile"]
    ELSE IF d.step = "write_error"
    THEN [file |-> write(open_wb(file), d.table, d.written),
          kind |-> "raise", exc |-> "OSError"]
    ELSE [file |-> write(open_wb(file), d.table, d.written),
          kind |-> "return", exc |-> "none"]

get_lookup_table(force_refresh, d) ==
    /\ loads < MaxLoads
    /\ loads' = loads + 1
    /\ cache_before' = cache_file
    /\ LET r == lookup_table(cache_file, force_refresh, d)
       IN  /\ cache_file' = r.file
           /\ load_result' = [op |-> "get_lookup_table", kind |-> r.kind,
                              exc |-> r.exc]
    /\ UNCHANGED <<taxonomy, resolveVars, language, verifyVars, nameVars,
                   relativesVars>>

\* get_lookup_table() and pd.read_csv of the file it returns.
get_glottolog(d) ==
    /\ loads < MaxLoads
    /\ loads' = loads + 1
    /\ cache_before' = cache_file
    /\ LET r == lookup_table(cache_file, FALSE, d)
       IN  /\ cache_file' = r.file
           /\ IF r.kind = "raise"
              THEN /\ load_result' = [op |-> "get_glottolog", kind |-> "raise",
                                      exc |-> r.exc]
                   /\ UNCHANGED taxonomy
              ELSE IF r.file.content = <<>>
              THEN /\ load_result' = [op |-> "get_glottolog", kind |-> "raise",
                                      exc |-> "EmptyDataError"]
                   /\ UNCHANGED taxonomy
              ELSE /\ load_result' = [op |-> "get_glottolog", kind |-> "return",
                                      exc |-> "none"]
                   /\ taxonomy' = r.file.content
    /\ UNCHANGED <<resolveVars, language, verifyVars, nameVars, relativesVars>>

NextLoad ==
    \/ \E force_refresh \in BOOLEAN, d \in Downloads :
          get_lookup_table(force_refresh, d)
    \/ \E d \in Downloads : get_glottolog(d)

\* The cache is empty or holds a table a former run has written in full.
InitLoadSpec ==
    /\ taxonomy = <<>>
    /\ InitResolve
    /\ language = <<>>
    /\ InitVerify
    /\ InitName
    /\ InitRelatives
    /\ cache_file \in {NoFile} \cup
            {[exists |-> TRUE, content |-> t] : t \in PublishedTables}
    /\ cache_before = cache_file
    /\ load_result = NoLoad
    /\ loads = 0

SpecLoad == InitLoadSpec /\ [][NextLoad]_vars

-----------------------------------------------------------------------------
(* What the claim about the loads speaks of. *)

\* C11: a load that fails because the source is unreachable or the expected
\* file is missing from the archive raises and leaves the cache file as it
\* was before the call; and after any sequence of loads, no load returns a
\* partially written or empty cache file as if it were the full table.
C11_FailedLoadKeepsCacheNoPartialTable ==
    /\ (load_result.kind = "raise"
            /\ load_result.exc \in {"ConnectionError", "HTTPError",
                                    "FileNotFoundError"}) =>
          cache_file = cache_before
    /\ load_result.kind = "return" =>
          /\ cache_file.exists
          /\ cache_file.content \in PublishedTables
          /\ load_result.op = "get_glottolog" => taxonomy \in PublishedTables

\* The first half of C11 alone: the two failures it names leave the cache
\* file as it was.
C11_NamedFailuresKeepCache ==
    (load_result.kind = "raise"
        /\ load_result.exc \in {"ConnectionError", "HTTPError",
                                "FileNotFoundError"}) =>
        cache_file = cache_before

-----------------------------------------------------------------------------
(* find_parents on its own. *)

\* The longest list of ids passed to find_parents.
MaxIds == 2

IdLists == UNION {[1..n -> Glottocodes] : n \in 0..MaxIds}

\* One call of find_parents on the arguments the initial state holds.
find_parents_call ==
    /\ ~found_parents.returned
    /\ found_parents' = [returned |-> TRUE,
                         value |-> find_parents(candidate_ids_arg, taxonomy)]
    /\ UNCHANGED <<taxonomy, resolveVars, language, verifyVars, nameVars,
                   loadVars, candidate_ids_arg>>

NextRelatives == find_parents_call

InitRelativesSpec ==
    /\ taxonomy \in WalkTaxonomies
    /\ InitResolve
    /\ language = <<>>
    /\ InitVerify
    /\ InitName
    /\ InitLoad
    /\ candidate_ids_arg \in IdLists
    /\ found_parents = [returned |-> FALSE, value |-> <<>>]

SpecRelatives == InitRelativesSpec /\ [][NextRelatives]_vars

-----------------------------------------------------------------------------
(* What the claim about find_parents speaks of. *)

\* The rows whose id is among the ids passed.
RowsOfArg == {r \in Range(taxonomy) : r.id \in Range(candidate_ids_arg)}

\* The result is the set of the string parent_id values of those rows, a
\* null parent is not in it, and it goes one hop only.
ParentsOneHop ==
    LET found == Range(found_parents.value) IN
    /\ found = {r.parent_id : r \in RowsOfArg} \ {NaN}
    /\ NaN \notin found
    /\ \A r \in RowsOfArg :
          LET grandparent == ParentOf(r.parent_id) IN
          (grandparent # NaN /\ \A q \in RowsOfArg : q.parent_id # grandparent)
              => grandparent \notin found

\* C12 (as claimed): find_parents returns exactly the string parent_id values
\* of the rows whose id is in ids; a null parent is never in the result, a
\* dangling parent is dropped, and the result goes one hop only.
C12_FindParents_Claimed ==
    found_parents.returned =>
        /\ ParentsOneHop
        /\ Range(found_parents.value) \subseteq IdsOf(taxonomy)

\* C12 (amended): find_parents returns exactly the string parent_id values of
\* the rows whose id is in ids; a null parent is never in the result, and the
\* result goes one hop only.  A dangling parent_id, a string that names no
\* row, is a string like any other and is returned, without an error.
C12_FindParents ==
    found_parents.returned =>
        /\ ParentsOneHop
        /\ \A r \in RowsOfArg :
              (r.parent_id # NaN /\ r.parent_id \notin IdsOf(taxonomy))
                  => r.parent_id \in Range(found_parents.value)

\* A call on a root and on a row with a dangling parent: the null parent is
\* left out and the dangling one returned; a third row has a grandparent.
C12_Witness ==
    /\ found_parents.returned
    /\ found_parents.value = <<Dangling>>
    /\ Len(candidate_ids_arg) = 2
    /\ \E r \in RowsOfArg : r.parent_id = NaN
    /\ \E r \in Range(taxonomy) : ParentOf(r.parent_id) = Dangling

====
